---- MODULE Spec2Model ----
(***************************************************************************)
(* The scraping job queue of juridica-news: class QueueManager of          *)
(* src/backend/src/services/DocumentToPdfService.ts (lines 184-627).       *)
(*                                                                         *)
(* QueueManager keeps one BullMQ Queue and one BullMQ Worker per source.   *)
(* The queue's contents live in Redis; what Queue.add, Worker, Job.remove, *)
(* Job.getState and Job.updateProgress do to them is the library's         *)
(* behaviour (BullMQ 5: the wait list, the prioritized, delayed,           *)
(* completed and failed sets, the active list and the per-job lock),       *)
(* modelled at the call that invokes it and under the options the code     *)
(* passes (attempts 3, exponential backoff 5000, concurrency 1,            *)
(* maxStalledCount 1, removeOnComplete 50, removeOnFail 100).              *)
(*                                                                         *)
(* Every await of a handler is a point where other handlers run, so a      *)
(* handler is one action per stretch between two awaits that matter.       *)
(***************************************************************************)
EXTENDS Integers, Sequences, FiniteSets, TLC

\* ---------------------------------------------------------------- bounds

\* Jobs submitted in one run.
MaxJobs == 2
\* Times a running job's lock may expire in one run (the event loop blocked
\* for longer than the lock duration).
MaxStalls == 2

\* ------------------------------------------------------ program constants

\* defaultJobOptions.attempts
attempts == 3
\* defaultJobOptions.backoff.delay (ms)
backoffDelay == 5000
\* defaultJobOptions.removeOnComplete
removeOnComplete == 50
\* defaultJobOptions.removeOnFail
removeOnFail == 100
\* Worker option concurrency
concurrency == 1
\* Worker option maxStalledCount
maxStalledCount == 1

\* ------------------------------------------------------------ input sets

\* The sources initialize() is called with (server start-up).
Sources == {"a", "b"}
\* A source no queue is ever created for.
UnknownSource == "zz"
\* userId? of addJob.
UserIds == {"u1"}
\* priority? of addJob: 0 is also what an omitted priority becomes.
Priorities == {0, 5}
\* Messages of the errors orchestrator.extractDocuments rejects with.
ErrorMessages == {"timeout", "parse"}
\* result.result?.documents.length of a resolved extraction.
DocCounts == {2}
\* Every source name: the configured ones and the unknown one.
AllSources == Sources \cup {UnknownSource}
\* Job ids: generateJobId draws a new one per submission.
JobIds == 1..MaxJobs

StalledReason == "job stalled more than allowable limit"

VARIABLES
  isInitialized,  \* QueueManager.isInitialized
  redis,          \* QueueManager.redis: "null" | "open" | "end" (after quit)
  queues,         \* QueueManager.queues: the sources that have a Queue (and a Worker)
  jobs,           \* per source: job id -> the job's hash in Redis
  lists,          \* per source: wait, prioritized, delayed, active, completed, failed
  locks,          \* per source: the ids whose lock key exists
  workers,        \* per source: the Worker's processor position and its job
  nextId,         \* the ids generateJobId has handed out so far
  stalls,         \* lock expiries so far
  events,         \* per job id: the statuses sseController.sendEvent was called with
  hist,           \* per job id: what has happened to the job (observation only)
  addCall,        \* the addJob call in flight (between queue.add and its return)
  shutdown        \* the cleanup call in flight, and what has been closed so far

vars == <<isInitialized, redis, queues, jobs, lists, locks, workers, nextId,
          stalls, events, hist, addCall, shutdown>>

\* ----------------------------------------------------------------- helpers

NoCall == [active |-> FALSE, jobId |-> 0, sourceId |-> "", userId |-> ""]
EmptyLists == [wait |-> <<>>, prioritized |-> <<>>, delayed |-> <<>>,
               active |-> <<>>, completed |-> <<>>, failed |-> <<>>]

SeqToSet(s) == {s[i] : i \in 1..Len(s)}
Without(s, x) == SelectSeq(s, LAMBDA y : y # x)
Has(s, x) == x \in SeqToSet(s)

RECURSIVE Pow2(_)
Pow2(n) == IF n <= 0 THEN 1 ELSE 2 * Pow2(n - 1)

\* ------------------------------------------------- the queue in Redis (BullMQ)
\* A queue value q is [jobs, lists, locks]: one source's part of the variables
\* of the same names.

QueueOf(s) == [jobs |-> jobs[s], lists |-> lists[s], locks |-> locks[s]]

\* The hash Queue.add stores for a new job (Job constructor defaults).
NewJob(sourceId, userId, priority) ==
  [sourceId |-> sourceId, userId |-> userId, priority |-> priority,
   progress |-> 0, attemptsMade |-> 0, attemptsStarted |-> 0,
   stalledCounter |-> 0, returnvalue |-> <<>>, failedReason |-> "",
   processedOn |-> FALSE, finishedOn |-> FALSE, delay |-> 0]

\* The prioritized set orders by priority, lower number first, and by
\* insertion among equal priorities: id goes after every entry whose priority
\* is not larger.
InsertByPriority(seq, id, priority, J) ==
  LET before == SelectSeq(seq, LAMBDA x : J[x].priority <= priority)
      after  == SelectSeq(seq, LAMBDA x : J[x].priority > priority)
  IN  before \o <<id>> \o after

\* The delayed set orders by due time: id goes after every entry due no later.
InsertByDelay(seq, id, delay, J) ==
  LET before == SelectSeq(seq, LAMBDA x : J[x].delay <= delay)
      after  == SelectSeq(seq, LAMBDA x : J[x].delay > delay)
  IN  before \o <<id>> \o after

\* A queue that puts a new job before the jobs of its priority (LIFO).
EnqueueFirst(L, id, priority, J) ==
  IF priority = 0
  THEN [L EXCEPT !.wait = <<id>> \o @]
  ELSE [L EXCEPT !.prioritized =
          SelectSeq(@, LAMBDA x : J[x].priority < priority) \o <<id>>
            \o SelectSeq(@, LAMBDA x : J[x].priority >= priority)]

\* Where a job without delay is queued: priority 0 (none) at the tail of the
\* wait list, a positive priority in the prioritized set.
Enqueue(L, id, priority, J) ==
  IF priority = 0
  THEN [L EXCEPT !.wait = Append(@, id)]
  ELSE [L EXCEPT !.prioritized = InsertByPriority(@, id, priority, J)]

\* A queue.add that stores the job's hash and forgets to queue its id.
QueueAddHashOnly(q, id, sourceId, userId, priority) ==
  IF id \in DOMAIN q.jobs
  THEN q
  ELSE [q EXCEPT !.jobs = (id :> NewJob(sourceId, userId, priority)) @@ q.jobs]

\* queue.add(name, data, {jobId, priority, delay: 0}): a job id that already
\* exists in the queue is left as it is.
QueueAdd(q, id, sourceId, userId, priority) ==
  IF id \in DOMAIN q.jobs
  THEN q
  ELSE LET J == (id :> NewJob(sourceId, userId, priority)) @@ q.jobs
       IN  [q EXCEPT !.jobs = J, !.lists = Enqueue(@, id, priority, J)]

\* Job.getState(): the list or set that holds the id.
GetState(q, id) ==
  CASE Has(q.lists.completed, id)   -> "completed"
    [] Has(q.lists.failed, id)      -> "failed"
    [] Has(q.lists.delayed, id)     -> "delayed"
    [] Has(q.lists.active, id)      -> "active"
    [] Has(q.lists.wait, id)        -> "waiting"
    [] Has(q.lists.prioritized, id) -> "prioritized"
    [] OTHER                        -> "unknown"

\* Delayed jobs that are due move to where a job without delay is queued, in
\* the order they fell due (part of every moveToActive).
RECURSIVE PromoteDelayed(_)
PromoteDelayed(q) ==
  LET due == SelectSeq(q.lists.delayed, LAMBDA x : q.jobs[x].delay <= 0)
  IN  IF due = <<>>
      THEN q
      ELSE LET id == Head(due)
               L1 == [q.lists EXCEPT !.delayed = Without(@, id)]
           IN  PromoteDelayed(
                 [q EXCEPT !.lists = Enqueue(L1, id, q.jobs[id].priority, q.jobs)])

\* A worker that serves the prioritized set before the wait list.
NextJobPrioritizedFirst(L) ==
  IF L.prioritized # <<>> THEN Head(L.prioritized)
  ELSE IF L.wait # <<>> THEN Head(L.wait)
  ELSE 0

\* The job a worker gets next: the head of the wait list, else the head of the
\* prioritized set; 0 when there is none.
NextJob(L) ==
  IF L.wait # <<>> THEN Head(L.wait)
  ELSE IF L.prioritized # <<>> THEN Head(L.prioritized)
  ELSE 0

\* moveToActive: promote the due delayed jobs, then move the next job to the
\* active list, lock it, set processedOn and count the started attempt.
\* Returns [q, job]; job is 0 when no job is eligible.
MoveToActive(q) ==
  LET p  == PromoteDelayed(q)
      id == NextJob(p.lists)
  IN  IF id = 0
      THEN [q |-> p, job |-> 0]
      ELSE [q |-> [p EXCEPT
                     !.lists = [@ EXCEPT !.wait = Without(@, id),
                                         !.prioritized = Without(@, id),
                                         !.active = Append(@, id)],
                     !.locks = @ \cup {id},
                     !.jobs = [@ EXCEPT ![id].processedOn = TRUE,
                                        ![id].attemptsStarted = @ + 1]],
            job |-> id]

\* A removal that removes nothing.
RemoveJobNothing(q, id) == q

\* Remove a job's hash and every reference to it.
RemoveJob(q, id) ==
  [jobs  |-> [x \in DOMAIN q.jobs \ {id} |-> q.jobs[x]],
   lists |-> [k \in DOMAIN q.lists |-> Without(q.lists[k], id)],
   locks |-> q.locks \ {id}]

\* Keep the newest n entries of the completed (or failed) set; the jobs
\* dropped from it are deleted.
RECURSIVE RemoveAll(_, _)
RemoveAll(q, ids) ==
  IF ids = <<>> THEN q ELSE RemoveAll(RemoveJob(q, Head(ids)), Tail(ids))

\* A retention that evicts the newest entries instead of the oldest.
TrimSetNewest(q, k, n) ==
  LET s == q.lists[k]
  IN  IF Len(s) <= n THEN q ELSE RemoveAll(q, SubSeq(s, n + 1, Len(s)))

TrimSet(q, k, n) ==
  LET s == q.lists[k]
  IN  IF Len(s) <= n THEN q ELSE RemoveAll(q, SubSeq(s, 1, Len(s) - n))

\* Whether a worker's script may finish job id: the job exists and its lock
\* is still there (error codes -1 and -2 otherwise).
CanFinish(q, id) == id \in DOMAIN q.jobs /\ id \in q.locks

\* A move to completed that does not count the attempt.
MoveToCompletedUncounted(q, id, rv) ==
  [q EXCEPT
     !.lists = [@ EXCEPT !.active = Without(@, id),
                         !.completed = Append(@, id)],
     !.locks = @ \ {id},
     !.jobs = [@ EXCEPT ![id].returnvalue = rv,
                        ![id].finishedOn = TRUE]]

\* moveToFinished for a completed job: out of the active list, the lock
\* released, the return value stored, the attempt counted, into the completed
\* set, which keeps the newest removeOnComplete jobs.
MoveToCompleted(q, id, rv) ==
  TrimSet([q EXCEPT
             !.lists = [@ EXCEPT !.active = Without(@, id),
                                 !.completed = Append(@, id)],
             !.locks = @ \ {id},
             !.jobs = [@ EXCEPT ![id].returnvalue = rv,
                                ![id].finishedOn = TRUE,
                                ![id].attemptsMade = @ + 1]],
          "completed", removeOnComplete)

\* A move to failed that keeps the reason of the attempt before.
MoveToFailedSetOldReason(q, id, reason) ==
  [q EXCEPT
     !.lists = [@ EXCEPT !.active = Without(@, id),
                         !.failed = Append(@, id)],
     !.locks = @ \ {id},
     !.jobs = [@ EXCEPT ![id].finishedOn = TRUE,
                        ![id].attemptsMade = @ + 1]]

\* moveToFinished for a job that failed for good: as above, into the failed
\* set, which keeps the newest removeOnFail jobs.
MoveToFailedSet(q, id, reason) ==
  TrimSet([q EXCEPT
             !.lists = [@ EXCEPT !.active = Without(@, id),
                                 !.failed = Append(@, id)],
             !.locks = @ \ {id},
             !.jobs = [@ EXCEPT ![id].failedReason = reason,
                                ![id].finishedOn = TRUE,
                                ![id].attemptsMade = @ + 1]],
          "failed", removeOnFail)

\* moveToDelayed for a retry: out of the active list, the lock released, the
\* attempt counted, the failure's message stored, into the delayed set. The
\* progress stays what it was.
MoveToDelayed(q, id, delay, reason) ==
  LET J == [q.jobs EXCEPT ![id].failedReason = reason,
                          ![id].delay = delay,
                          ![id].attemptsMade = @ + 1]
  IN  [q EXCEPT
         !.jobs = J,
         !.locks = @ \ {id},
         !.lists = [@ EXCEPT !.active = Without(@, id),
                             !.delayed = InsertByDelay(@, id, delay, J)]]

\* A backoff that does not grow: the same delay after every failure.
BackoffDelayFixed(attemptsMade) == backoffDelay

\* Backoffs.calculate for {type: 'exponential', delay}: after the n-th failed
\* attempt, delay * 2^(n-1).
BackoffDelay(attemptsMade) == Pow2(attemptsMade - 1) * backoffDelay

\* A retry decision that is off by one: one attempt too many.
ShouldRetryOnceMore(job) == job.attemptsMade + 1 <= attempts

\* Whether a failed attempt is retried: attempts are left after this one.
ShouldRetry(job) == job.attemptsMade + 1 < attempts

\* A moveToFailed that loses the failure: the job stays where it is.
JobMoveToFailedNothing(q, id, reason) == q

\* Job.moveToFailed(err, token): a retry after the backoff delay while
\* attempts are left, the failed set otherwise.
JobMoveToFailed(q, id, reason) ==
  IF ShouldRetry(q.jobs[id])
  THEN MoveToDelayed(q, id, BackoffDelay(q.jobs[id].attemptsMade + 1), reason)
  ELSE MoveToFailedSet(q, id, reason)

\* An updateProgress that stores nothing.
UpdateProgressNothing(q, id, value) == q

\* job.updateProgress(value): stores the value; throws when the job is gone.
UpdateProgress(q, id, value) == [q EXCEPT !.jobs = [@ EXCEPT ![id].progress = value]]

\* Job.remove(): removes the job whatever list holds it, unless it is locked
\* by a worker, and then throws.
CanRemove(q, id) == id \notin q.locks

\* The stalled-jobs check on one active job whose lock is gone: back to the
\* head of the wait list, or failed once it has stalled more than
\* maxStalledCount times.
MoveStalledJob(q, id) ==
  LET n == q.jobs[id].stalledCounter + 1
  IN  IF n > maxStalledCount
      THEN TrimSet([q EXCEPT
                      !.lists = [@ EXCEPT !.active = Without(@, id),
                                          !.failed = Append(@, id)],
                      !.jobs = [@ EXCEPT ![id].stalledCounter = n,
                                         ![id].failedReason = StalledReason,
                                         ![id].finishedOn = TRUE]],
                   "failed", removeOnFail)
      ELSE [q EXCEPT
              !.lists = [@ EXCEPT !.active = Without(@, id),
                                  !.wait = <<id>> \o @],
              !.jobs = [@ EXCEPT ![id].stalledCounter = n]]

RECURSIVE MoveStalledJobs(_, _)
MoveStalledJobs(q, ids) ==
  IF ids = <<>> THEN q
  ELSE MoveStalledJobs(MoveStalledJob(q, Head(ids)), Tail(ids))

\* The active jobs whose lock has expired.
Stalled(q) == SelectSeq(q.lists.active, LAMBDA x : x \notin q.locks)

\* ------------------------------------------------------------ QueueManager

\* The order in which initialize creates the queues, which is the order the
\* Map QueueManager.queues iterates in.
SourceList == <<"a", "b">>

NoHist == [dequeues |-> 0, calls |-> 0, rejects |-> 0, resolves |-> 0,
           lastError |-> "", lockLost |-> FALSE, removedFrom |-> ""]

\* No cleanup in flight, every Worker and Queue open. pc is the position of
\* the cleanup call: "idle" (none), "workers" (awaiting the close of the i-th
\* Worker), "queues" (awaiting the close of the i-th Queue), "redis" (about to
\* quit the connection). failed: some close of a cleanup has rejected.
NoShutdown == [pc |-> "idle", i |-> 0, workers |-> {}, queues |-> {},
               failed |-> FALSE]

Init ==
  /\ isInitialized = FALSE
  /\ redis \in {"null", "open"}
  /\ queues = {}
  /\ jobs = [s \in AllSources |-> << >>]
  /\ lists = [s \in AllSources |-> EmptyLists]
  /\ locks = [s \in AllSources |-> {}]
  /\ workers = [s \in AllSources |-> {}]
  /\ nextId = 0
  /\ stalls = 0
  /\ events = [j \in JobIds |-> <<>>]
  /\ hist = [j \in JobIds |-> NoHist]
  /\ addCall = NoCall
  /\ shutdown = NoShutdown

SetQueue(s, q) ==
  /\ jobs' = [jobs EXCEPT ![s] = q.jobs]
  /\ lists' = [lists EXCEPT ![s] = q.lists]
  /\ locks' = [locks EXCEPT ![s] = q.locks]

\* A notification that is sent whether or not the job has a userId.
SendEventToAnyone(E, userId, id, status, progress) ==
  [E EXCEPT ![id] = Append(@, [status |-> status, progress |-> progress])]

\* sseController.sendEvent(userId, 'scraping_progress', {jobId, status,
\* progress, ...}), which the code calls only for a job that has a userId.
SendEvent(E, userId, id, status, progress) ==
  IF userId # ""
  THEN [E EXCEPT ![id] = Append(@, [status |-> status, progress |-> progress])]
  ELSE E

\* An initialize that creates the queues without looking at Redis.
CreatedQueuesWithoutRedis(pingOk, created) == {SourceList[i] : i \in 1..created}

\* An initialize that goes on with the next source when createQueueForSource
\* throws: every source but the failing one gets its queue.
CreatedQueuesSkippingFailed(pingOk, created) ==
  IF redis # "open" \/ ~pingOk
  THEN {}
  ELSE {SourceList[i] : i \in 1..Len(SourceList)} \ {SourceList[i] : i \in {created + 1} \cap 1..Len(SourceList)}

\* An initialize whose ping succeeds on a connection that has quit.
CreatedQueuesAfterQuit(pingOk, created) ==
  IF redis = "null" \/ ~pingOk
  THEN {}
  ELSE {SourceList[i] : i \in 1..created}

\* The queues initialize(sources) registers: none without Redis or when the
\* ping throws (as it does on a connection that has quit); otherwise those of the first `created` sources, the ones
\* createQueueForSource succeeded for before one threw (all of them when none
\* did).
CreatedQueues(pingOk, created) ==
  IF redis # "open" \/ ~pingOk
  THEN {}
  ELSE {SourceList[i] : i \in 1..created}

\* initialize(sources) on a manager not yet initialized: it ends marked
\* initialized whether or not Redis answered and the queues were created.
Initialize(pingOk, created) ==
  /\ ~isInitialized
  /\ isInitialized' = TRUE
  /\ queues' = queues \cup CreatedQueues(pingOk, created)
  /\ UNCHANGED <<shutdown, redis, jobs, lists, locks, workers, nextId, stalls, events,
                 hist, addCall>>

\* An initialize that creates the queues of its sources again on an
\* initialized manager.
InitializeAgainCreates ==
  /\ isInitialized
  /\ queues' = queues \cup SeqToSet(SourceList)
  /\ UNCHANGED <<shutdown, isInitialized, redis, jobs, lists, locks, workers, nextId,
                 stalls, events, hist, addCall>>

\* initialize(sources) on an initialized manager: a warning, nothing else.
InitializeAgain ==
  /\ isInitialized
  /\ UNCHANGED vars

\* generateJobId(sourceId): `${sourceId}_${Date.now()}_${random}`, an id no
\* earlier submission got.
GenerateJobId == nextId + 1

\* An addJob that does not look whether the source has a queue.
AddJobNeverThrows(sourceId) == FALSE

\* Whether addJob(sourceId, ...) throws 'Cola no encontrada para fuente':
\* queues.get(sourceId) is undefined.
AddJobThrows(sourceId) == sourceId \notin queues

\* addJob for a source without a queue: the throw, before anything is done.
AddJobUnknown(sourceId) ==
  /\ AddJobThrows(sourceId)
  /\ UNCHANGED vars

\* addJob for a source whose queue sits on a connection that has quit:
\* queue.add rejects ('Connection is closed.'), the catch block logs and
\* rethrows, nothing is stored.
AddJobFails(sourceId) ==
  /\ ~AddJobThrows(sourceId)
  /\ redis # "open"
  /\ UNCHANGED vars

\* addJob, up to the await of queue.add: the job is in the queue.
AddJob(sourceId, userId, priority) ==
  /\ ~AddJobThrows(sourceId)
  /\ redis = "open"
  /\ ~addCall.active
  /\ nextId < MaxJobs
  /\ LET id == GenerateJobId
     IN  /\ SetQueue(sourceId,
                     QueueAdd(QueueOf(sourceId), id, sourceId, userId, priority))
         /\ nextId' = id
         /\ addCall' = [active |-> TRUE, jobId |-> id,
                        sourceId |-> sourceId, userId |-> userId]
  /\ UNCHANGED <<shutdown, isInitialized, redis, queues, workers, stalls, events, hist>>

\* addJob after queue.add has resolved: the PENDING notification, then the
\* jobId (addCall.jobId) is returned.
AddJobReturn ==
  /\ addCall.active
  /\ events' = SendEvent(events, addCall.userId, addCall.jobId, "PENDING", 0)
  /\ addCall' = NoCall
  /\ UNCHANGED <<shutdown, isInitialized, redis, queues, jobs, lists, locks, workers,
                 nextId, stalls, hist>>

\* The sources whose queue.getJob throws: every one once the connection has
\* quit.
Unreachable == IF redis = "open" THEN {} ELSE queues

\* A search that ends, with nothing found, at the first queue whose getJob
\* throws.
RECURSIVE FindQueueStopping(_, _, _)
FindQueueStopping(id, i, failing) ==
  IF i > Len(SourceList) THEN 0
  ELSE IF SourceList[i] \in queues \cap failing THEN 0
  ELSE IF SourceList[i] \in queues /\ id \in DOMAIN jobs[SourceList[i]] THEN i
  ELSE FindQueueStopping(id, i + 1, failing)

\* The first queue, from position i of the Map's order on, that holds the job,
\* when queue.getJob throws for the sources in failing (the catch block goes
\* on with the next queue); 0 when none does.
RECURSIVE FindQueueSkipping(_, _, _)
FindQueueSkipping(id, i, failing) ==
  IF i > Len(SourceList) THEN 0
  ELSE IF /\ SourceList[i] \in queues \ failing
          /\ id \in DOMAIN jobs[SourceList[i]]
       THEN i
  ELSE FindQueueSkipping(id, i + 1, failing)

\* The first queue, from position i of the Map's order on, that holds the job;
\* 0 when none does.
FindQueue(id, i) == FindQueueSkipping(id, i, Unreachable)

\* A view that names the first source of the Map whatever queue held the job.
JobViewFirstSource(sourceId, id) ==
  LET job == jobs[sourceId][id]
  IN  [id |-> id, sourceId |-> SourceList[1],
       status |-> GetState(QueueOf(sourceId), id),
       progress |-> job.progress, returnValue |-> job.returnvalue,
       failedReason |-> job.failedReason, processedOn |-> job.processedOn,
       finishedOn |-> job.finishedOn, attempts |-> job.attemptsMade,
       maxAttempts |-> attempts]

\* The object getJobStatus builds from the job it found in sourceId's queue.
JobView(sourceId, id) ==
  LET job == jobs[sourceId][id]
  IN  [id |-> id, sourceId |-> sourceId,
       status |-> GetState(QueueOf(sourceId), id),
       progress |-> job.progress, returnValue |-> job.returnvalue,
       failedReason |-> job.failedReason, processedOn |-> job.processedOn,
       finishedOn |-> job.finishedOn, attempts |-> job.attemptsMade,
       maxAttempts |-> attempts]

\* getJobStatus(jobId): the view of the job in the first queue that holds it;
\* <<>> is null. It reads and changes nothing.
GetJobStatus(id) ==
  LET i == FindQueue(id, 1)
  IN  IF i = 0 THEN <<>> ELSE <<JobView(SourceList[i], id)>>

\* The queue cancelJob(jobId) removes the job from: the first queue, from
\* position i of the Map's order on, that holds the job and whose job.remove()
\* does not throw (a throw is caught and the search goes on); 0 when none.
RECURSIVE CancelTarget(_, _)
CancelTarget(id, i) ==
  LET k == FindQueue(id, i)
  IN  IF k = 0 THEN 0
      ELSE IF CanRemove(QueueOf(SourceList[k]), id) THEN k
      ELSE CancelTarget(id, k + 1)

\* What cancelJob(jobId) returns: true when it removed the job.
CancelJobResult(id) == CancelTarget(id, 1) # 0

\* cancelJob(jobId): removes the job and returns true, or changes nothing and
\* returns false. A caller knows a job's id only once addJob has returned it.
CancelJob(id) ==
  /\ ~(addCall.active /\ addCall.jobId = id)
  /\ IF CancelJobResult(id)
     THEN LET s == SourceList[CancelTarget(id, 1)]
          IN  /\ SetQueue(s, RemoveJob(QueueOf(s), id))
              /\ hist' = [hist EXCEPT ![id].removedFrom = GetState(QueueOf(s), id)]
     ELSE UNCHANGED <<jobs, lists, locks, hist>>
  /\ UNCHANGED <<shutdown, isInitialized, redis, queues, workers, nextId, stalls, events,
                 addCall>>

\* ------------------------------------------------------------------ Worker
\* workers[s] holds one record per job the Worker of source s is processing:
\* [job, userId, pc, docs]. pc is the processor's position in
\* processScrapingJob: "start" (before updateProgress(10)), "extracting"
\* (awaiting orchestrator.extractDocuments), "resolved" (after
\* updateProgress(100), before the return).

Proc(id, userId) == [job |-> id, userId |-> userId, pc |-> "start", docs |-> 0]

\* A Worker that takes the next job whatever it is running.
HasCapacityAlways(s) == TRUE

\* Workers that share one slot: a Worker takes a job only while no Worker of
\* any source runs one.
HasCapacityShared(s) ==
  Cardinality(UNION {workers[x] : x \in AllSources}) < concurrency

\* A Worker that counts the locks it holds instead of the jobs it runs.
HasCapacityByLocks(s) == Cardinality(locks[s]) < concurrency

\* The Worker takes a job only while it runs fewer than concurrency of them.
HasCapacity(s) == Cardinality(workers[s]) < concurrency

\* The processors of a worker after one of them, p, has ended and the script
\* that ended it has fetched job next (0: none) from queue q.
AfterFetch(W, p, q, next) ==
  IF next = 0 THEN W \ {p}
  ELSE (W \ {p}) \cup {Proc(next, q.jobs[next].userId)}

\* The order cleanup closes the Workers and the Queues in: the order of the
\* Maps, which is the order initialize created them in.
CleanupList == SelectSeq(SourceList, LAMBDA s : s \in queues)

\* Whether worker.close() has been called on the Worker of source s: from then
\* on it fetches no job and runs no stalled check, and the close resolves when
\* its processor has ended.
Closing(s) ==
  \/ s \in shutdown.workers
  \/ shutdown.pc = "workers" /\ CleanupList[shutdown.i] = s

\* The fetch of the next job in the script that finishes a job: none when the
\* Worker is closing.
FetchNext(s, q) == IF Closing(s) THEN [q |-> q, job |-> 0] ELSE MoveToActive(q)

CountDequeue(H, id) == IF id = 0 THEN H ELSE [H EXCEPT ![id].dequeues = @ + 1]

\* An idle Worker fetches the next job (moveToActive).
WorkerFetch(s) ==
  /\ s \in queues
  /\ ~Closing(s)
  /\ HasCapacity(s)
  /\ LET r == MoveToActive(QueueOf(s))
     IN  /\ r.job # 0
         /\ SetQueue(s, r.q)
         /\ workers' = [workers EXCEPT ![s] = @ \cup {Proc(r.job, r.q.jobs[r.job].userId)}]
         /\ hist' = CountDequeue(hist, r.job)
  /\ UNCHANGED <<shutdown, isInitialized, redis, queues, nextId, stalls, events, addCall>>

\* The catch block of processScrapingJob when the job it works on is gone
\* (updateProgress threw): the FAILED notification and the rethrow; the
\* Worker's moveToFailed then fails too and changes nothing.
ProcLost(s, p) ==
  /\ events' = SendEvent(events, p.userId, p.job, "FAILED", 0)
  /\ workers' = [workers EXCEPT ![s] = @ \ {p}]
  /\ UNCHANGED <<jobs, lists, locks>>

\* processScrapingJob up to the call of the orchestrator: progress 10, the
\* RUNNING notification, extractDocuments called.
ProcStart(s, p) ==
  /\ p \in workers[s]
  /\ p.pc = "start"
  /\ IF p.job \in DOMAIN jobs[s]
     THEN /\ SetQueue(s, UpdateProgress(QueueOf(s), p.job, 10))
          /\ events' = SendEvent(events, p.userId, p.job, "RUNNING", 10)
          /\ workers' = [workers EXCEPT ![s] = (@ \ {p}) \cup {[p EXCEPT !.pc = "extracting"]}]
          /\ hist' = [hist EXCEPT ![p.job].calls = @ + 1]
     ELSE /\ ProcLost(s, p)
          /\ UNCHANGED hist
  /\ UNCHANGED <<shutdown, isInitialized, redis, queues, nextId, stalls, addCall>>

\* extractDocuments resolves with docs documents: progress 100.
OrchResolve(s, p, docs) ==
  /\ p \in workers[s]
  /\ p.pc = "extracting"
  /\ hist' = [hist EXCEPT ![p.job].resolves = @ + 1]
  /\ IF p.job \in DOMAIN jobs[s]
     THEN /\ SetQueue(s, UpdateProgress(QueueOf(s), p.job, 100))
          /\ workers' = [workers EXCEPT ![s] =
                           (@ \ {p}) \cup {[p EXCEPT !.pc = "resolved", !.docs = docs]}]
          /\ UNCHANGED events
     ELSE ProcLost(s, p)
  /\ UNCHANGED <<shutdown, isInitialized, redis, queues, nextId, stalls, addCall>>

\* processScrapingJob returns: the COMPLETED notification, then the Worker
\* moves the job to completed and fetches the next one in the same script.
\* Without the job's lock the move fails and changes nothing.
ProcReturn(s, p) ==
  /\ p \in workers[s]
  /\ p.pc = "resolved"
  /\ events' = SendEvent(events, p.userId, p.job, "COMPLETED", 100)
  /\ IF CanFinish(QueueOf(s), p.job)
     THEN LET r == FetchNext(s, MoveToCompleted(QueueOf(s), p.job, <<p.docs>>))
          IN  /\ SetQueue(s, r.q)
              /\ workers' = [workers EXCEPT ![s] = AfterFetch(@, p, r.q, r.job)]
              /\ hist' = CountDequeue(hist, r.job)
     ELSE /\ workers' = [workers EXCEPT ![s] = @ \ {p}]
          /\ UNCHANGED <<jobs, lists, locks, hist>>
  /\ UNCHANGED <<shutdown, isInitialized, redis, queues, nextId, stalls, addCall>>

\* extractDocuments rejects with message msg: the catch block sends the
\* FAILED notification and rethrows; the Worker's moveToFailed retries the
\* job after the backoff delay or fails it for good, and after a final
\* failure fetches the next job in the same script.
OrchReject(s, p, msg) ==
  /\ p \in workers[s]
  /\ p.pc = "extracting"
  /\ events' = SendEvent(events, p.userId, p.job, "FAILED", 0)
  /\ IF CanFinish(QueueOf(s), p.job)
     THEN LET f == JobMoveToFailed(QueueOf(s), p.job, msg)
              r == IF Has(f.lists.failed, p.job) \/ p.job \notin DOMAIN f.jobs
                   THEN FetchNext(s, f)
                   ELSE [q |-> f, job |-> 0]
          IN  /\ SetQueue(s, r.q)
              /\ workers' = [workers EXCEPT ![s] = AfterFetch(@, p, r.q, r.job)]
              /\ hist' = [CountDequeue(hist, r.job) EXCEPT
                            ![p.job].rejects = @ + 1, ![p.job].lastError = msg]
     ELSE /\ workers' = [workers EXCEPT ![s] = @ \ {p}]
          /\ hist' = [hist EXCEPT ![p.job].rejects = @ + 1, ![p.job].lastError = msg]
          /\ UNCHANGED <<jobs, lists, locks>>
  /\ UNCHANGED <<shutdown, isInitialized, redis, queues, nextId, stalls, addCall>>

\* The lock of a job in progress expires: the Worker could not renew it in
\* time. A lock lasts far longer than the two short awaits on Redis, so it
\* expires during the extraction.
LockExpire(s, p) ==
  /\ p \in workers[s]
  /\ p.pc = "extracting"
  /\ p.job \in locks[s]
  /\ stalls < MaxStalls
  /\ stalls' = stalls + 1
  /\ locks' = [locks EXCEPT ![s] = @ \ {p.job}]
  /\ hist' = [hist EXCEPT ![p.job].lockLost = TRUE]
  /\ UNCHANGED <<shutdown, isInitialized, redis, queues, jobs, lists, workers, nextId,
                 events, addCall>>

\* The Worker's stalled-jobs check (every stalledInterval).
StalledCheck(s) ==
  /\ s \in queues
  /\ ~Closing(s)
  /\ Stalled(QueueOf(s)) # <<>>
  /\ SetQueue(s, MoveStalledJobs(QueueOf(s), Stalled(QueueOf(s))))
  /\ UNCHANGED <<shutdown, isInitialized, redis, queues, workers, nextId, stalls, events,
                 hist, addCall>>

\* A clock that stands still: no delay runs down.
TickStandsStill ==
  /\ \E s \in AllSources : \E id \in DOMAIN jobs[s] : jobs[s][id].delay > 0
  /\ UNCHANGED vars

\* Time passes: one backoff unit less to wait for every delayed job.
Tick ==
  /\ \E s \in AllSources : \E id \in DOMAIN jobs[s] : jobs[s][id].delay > 0
  /\ jobs' = [s \in AllSources |->
                [id \in DOMAIN jobs[s] |->
                   IF jobs[s][id].delay > 0
                   THEN [jobs[s][id] EXCEPT !.delay = @ - backoffDelay]
                   ELSE jobs[s][id]]]
  /\ UNCHANGED <<shutdown, isInitialized, redis, queues, lists, locks, workers, nextId,
                 stalls, events, hist, addCall>>

\* Every operation on a manager whose Redis keeps every lock alive. Both
\* sources, jobs with and without priority, every error message.
Next ==
  \/ \E pingOk \in BOOLEAN, created \in 0..Len(SourceList) : Initialize(pingOk, created)
  \/ InitializeAgain
  \/ \E sourceId \in AllSources : AddJobUnknown(sourceId)
  \/ \E sourceId \in AllSources, userId \in UserIds, priority \in Priorities :
        AddJob(sourceId, userId, priority)
  \/ AddJobReturn
  \/ \E id \in JobIds : CancelJob(id)
  \/ \E s \in AllSources : WorkerFetch(s)
  \/ \E s \in AllSources : \E p \in workers[s] : ProcStart(s, p)
  \/ \E s \in AllSources : \E p \in workers[s], docs \in DocCounts : OrchResolve(s, p, docs)
  \/ \E s \in AllSources : \E p \in workers[s] : ProcReturn(s, p)
  \/ \E s \in AllSources : \E p \in workers[s], msg \in ErrorMessages : OrchReject(s, p, msg)
  \/ Tick

Spec == Init /\ [][Next]_vars

\* Every operation, lock expiry and the stalled-jobs check included, on a
\* manager that got a queue for the first source only; jobs without priority,
\* one error message.
NextStall ==
  \/ \E pingOk \in BOOLEAN, created \in 0..1 : Initialize(pingOk, created)
  \/ InitializeAgain
  \/ \E sourceId \in AllSources : AddJobUnknown(sourceId)
  \/ \E sourceId \in AllSources, userId \in UserIds : AddJob(sourceId, userId, 0)
  \/ AddJobReturn
  \/ \E id \in JobIds : CancelJob(id)
  \/ \E s \in AllSources : WorkerFetch(s)
  \/ \E s \in AllSources : \E p \in workers[s] : ProcStart(s, p)
  \/ \E s \in AllSources : \E p \in workers[s], docs \in DocCounts : OrchResolve(s, p, docs)
  \/ \E s \in AllSources : \E p \in workers[s] : ProcReturn(s, p)
  \/ \E s \in AllSources : \E p \in workers[s] : OrchReject(s, p, "timeout")
  \/ \E s \in AllSources : \E p \in workers[s] : LockExpire(s, p)
  \/ \E s \in AllSources : StalledCheck(s)
  \/ Tick

SpecStall == Init /\ [][NextStall]_vars

\* --------------------------------------------------- a notifier that throws
\* None of the four calls of sseController.sendEvent is guarded by a try of
\* its own: a throw of sendEvent takes the path of any other error.

\* The message of the error sendEvent throws.
SseError == "sse"

\* addJob when the PENDING sendEvent throws: the catch of addJob logs and
\* rethrows, so addJob rejects and returns no jobId; the job stays queued.
AddJobReturnThrows ==
  /\ addCall.active
  /\ addCall.userId # ""
  /\ addCall' = NoCall
  /\ UNCHANGED <<shutdown, isInitialized, redis, queues, jobs, lists, locks, workers,
                 nextId, stalls, events, hist>>

\* processScrapingJob ends by throwing the notifier's error from its catch
\* block: the FAILED sendEvent of the catch went through (sent) or threw as
\* well; the Worker then retries the job or fails it, with that error's
\* message as the reason. q is the queue as the processor left it, H the
\* history.
ThrowSseError(s, p, sent, q, H) ==
  /\ events' = IF sent THEN SendEvent(events, p.userId, p.job, "FAILED", 0) ELSE events
  /\ IF CanFinish(q, p.job)
     THEN LET f == JobMoveToFailed(q, p.job, SseError)
              r == IF Has(f.lists.failed, p.job) \/ p.job \notin DOMAIN f.jobs
                   THEN FetchNext(s, f)
                   ELSE [q |-> f, job |-> 0]
          IN  /\ SetQueue(s, r.q)
              /\ workers' = [workers EXCEPT ![s] = AfterFetch(@, p, r.q, r.job)]
              /\ hist' = CountDequeue(H, r.job)
     ELSE /\ SetQueue(s, q)
          /\ workers' = [workers EXCEPT ![s] = @ \ {p}]
          /\ hist' = H
  /\ UNCHANGED <<shutdown, isInitialized, redis, queues, nextId, stalls, addCall>>

\* The RUNNING sendEvent throws, after updateProgress(10): extractDocuments
\* is not called for this attempt.
ProcStartThrows(s, p, sent) ==
  /\ p \in workers[s]
  /\ p.pc = "start"
  /\ p.userId # ""
  /\ p.job \in DOMAIN jobs[s]
  /\ ThrowSseError(s, p, sent, UpdateProgress(QueueOf(s), p.job, 10), hist)

\* The COMPLETED sendEvent throws, after extractDocuments resolved and
\* updateProgress(100): the attempt counts as failed.
ProcReturnThrows(s, p, sent) ==
  /\ p \in workers[s]
  /\ p.pc = "resolved"
  /\ p.userId # ""
  /\ ThrowSseError(s, p, sent, QueueOf(s), hist)

\* extractDocuments rejects and the FAILED sendEvent of the catch throws: the
\* notifier's error replaces the orchestrator's.
OrchRejectThrows(s, p, msg) ==
  /\ p \in workers[s]
  /\ p.pc = "extracting"
  /\ p.userId # ""
  /\ ThrowSseError(s, p, FALSE, QueueOf(s),
                   [hist EXCEPT ![p.job].rejects = @ + 1, ![p.job].lastError = msg])

\* Submission and processing with a notifier that may throw at each of its
\* calls, on a manager with a queue for the first source only. A notifier that
\* threw in the try block throws in the catch block too.
NextNotify ==
  \/ \E pingOk \in BOOLEAN, created \in 0..1 : Initialize(pingOk, created)
  \/ \E sourceId \in Sources, userId \in UserIds : AddJob(sourceId, userId, 0)
  \/ AddJobReturn
  \/ AddJobReturnThrows
  \/ \E s \in Sources : WorkerFetch(s)
  \/ \E s \in Sources : \E p \in workers[s] : ProcStart(s, p)
  \/ \E s \in Sources : \E p \in workers[s] : ProcStartThrows(s, p, FALSE)
  \/ \E s \in Sources : \E p \in workers[s], docs \in DocCounts : OrchResolve(s, p, docs)
  \/ \E s \in Sources : \E p \in workers[s] : ProcReturn(s, p)
  \/ \E s \in Sources : \E p \in workers[s] : ProcReturnThrows(s, p, FALSE)
  \/ \E s \in Sources : \E p \in workers[s] : OrchReject(s, p, "timeout")
  \/ \E s \in Sources : \E p \in workers[s] : OrchRejectThrows(s, p, "timeout")
  \/ Tick

SpecNotify == Init /\ [][NextNotify]_vars

\* The userId of a submission: absent ("") or a user.
OptionalUserIds == {""} \cup UserIds

\* Submission, cancellation and processing of jobs with and without a userId,
\* on a manager with a queue for the first source only, locks never expiring.
NextUsers ==
  \/ \E pingOk \in BOOLEAN, created \in 0..1 : Initialize(pingOk, created)
  \/ \E sourceId \in Sources, userId \in OptionalUserIds : AddJob(sourceId, userId, 0)
  \/ AddJobReturn
  \/ \E id \in JobIds : CancelJob(id)
  \/ \E s \in Sources : WorkerFetch(s)
  \/ \E s \in Sources : \E p \in workers[s] : ProcStart(s, p)
  \/ \E s \in Sources : \E p \in workers[s], docs \in DocCounts : OrchResolve(s, p, docs)
  \/ \E s \in Sources : \E p \in workers[s] : ProcReturn(s, p)
  \/ \E s \in Sources : \E p \in workers[s] : OrchReject(s, p, "timeout")
  \/ Tick

SpecUsers == Init /\ [][NextUsers]_vars

\* The priorities that tell the order of dequeuing: none (0) and two positive
\* ones.
OrderPriorities == {0, 1, 5}

\* Submission and processing on a manager with a queue for the first source
\* only, locks never expiring, jobs of every priority in OrderPriorities.
NextOrder ==
  \/ \E pingOk \in BOOLEAN, created \in 0..1 : Initialize(pingOk, created)
  \/ \E sourceId \in Sources, userId \in UserIds, priority \in OrderPriorities :
        AddJob(sourceId, userId, priority)
  \/ AddJobReturn
  \/ \E s \in Sources : WorkerFetch(s)
  \/ \E s \in Sources : \E p \in workers[s] : ProcStart(s, p)
  \/ \E s \in Sources : \E p \in workers[s], docs \in DocCounts : OrchResolve(s, p, docs)
  \/ \E s \in Sources : \E p \in workers[s] : ProcReturn(s, p)
  \/ \E s \in Sources : \E p \in workers[s] : OrchReject(s, p, "timeout")
  \/ Tick

SpecOrder == Init /\ [][NextOrder]_vars

\* getQueueStats(): for every queue of the Map, the lengths of what
\* getWaiting (the wait list), getActive, getCompleted and getFailed return,
\* and their sum; {error} for a queue whose calls throw. It reads and changes
\* nothing.
GetQueueStats ==
  [s \in queues |->
     IF s \in Unreachable
     THEN [error |-> TRUE]
     ELSE [waiting |-> Len(lists[s].wait),
           active |-> Len(lists[s].active),
           completed |-> Len(lists[s].completed),
           failed |-> Len(lists[s].failed),
           total |-> Len(lists[s].wait) + Len(lists[s].active)
                     + Len(lists[s].completed) + Len(lists[s].failed)]]

\* ----------------------------------------------------------------- cleanup
\* cleanup() awaits worker.close() for every Worker, then queueEvents.close()
\* and queue.close() for every Queue, then redis.quit(), and ends with
\* isInitialized = false. It clears none of the Maps. Every close is in a try
\* of its own; a close that rejects has closed its object all the same.

\* redis.quit() and what follows it: the connection ends (on a manager
\* without Redis the call throws and is caught), isInitialized = false.
Quit ==
  /\ redis' = IF redis = "open" THEN "end" ELSE redis
  /\ isInitialized' = FALSE
  /\ shutdown' = [shutdown EXCEPT !.pc = "idle", !.i = 0]

\* A cleanup that quits the connection before it closes anything.
CleanupQuitsFirst ==
  /\ shutdown.pc = "idle"
  /\ Quit
  /\ UNCHANGED <<queues, jobs, lists, locks, workers, nextId, stalls, events,
                 hist, addCall>>

\* cleanup() is called: close() is called on the first Worker; on a manager
\* without workers the loops are empty and quit is called at once.
Cleanup ==
  /\ shutdown.pc = "idle"
  /\ IF CleanupList = <<>>
     THEN Quit
     ELSE /\ shutdown' = [shutdown EXCEPT !.pc = "workers", !.i = 1]
          /\ UNCHANGED <<isInitialized, redis>>
  /\ UNCHANGED <<queues, jobs, lists, locks, workers, nextId, stalls, events,
                 hist, addCall>>

\* The close of the i-th Worker resolves, once its processor has ended;
\* cleanup goes on with the next Worker, or with the first Queue.
WorkerClosed ==
  /\ shutdown.pc = "workers"
  /\ workers[CleanupList[shutdown.i]] = {}
  /\ shutdown' = IF shutdown.i < Len(CleanupList)
                 THEN [shutdown EXCEPT !.workers = @ \cup {CleanupList[shutdown.i]},
                                       !.i = @ + 1]
                 ELSE [shutdown EXCEPT !.workers = @ \cup {CleanupList[shutdown.i]},
                                       !.pc = "queues", !.i = 1]
  /\ UNCHANGED <<isInitialized, redis, queues, jobs, lists, locks, workers,
                 nextId, stalls, events, hist, addCall>>

\* The close of the i-th Queue (and of its QueueEvents) resolves; cleanup
\* goes on with the next Queue, or with the connection. The Queue was given
\* the manager's connection, which its close leaves open.
QueueClosed ==
  /\ shutdown.pc = "queues"
  /\ shutdown' = IF shutdown.i < Len(CleanupList)
                 THEN [shutdown EXCEPT !.queues = @ \cup {CleanupList[shutdown.i]},
                                       !.i = @ + 1]
                 ELSE [shutdown EXCEPT !.queues = @ \cup {CleanupList[shutdown.i]},
                                       !.pc = "redis", !.i = 0]
  /\ UNCHANGED <<isInitialized, redis, queues, jobs, lists, locks, workers,
                 nextId, stalls, events, hist, addCall>>

\* cleanup after the last Queue has closed: quit, and the end of the call.
CleanupReturn ==
  /\ shutdown.pc = "redis"
  /\ Quit
  /\ UNCHANGED <<queues, jobs, lists, locks, workers, nextId, stalls, events,
                 hist, addCall>>

\* A cleanup that a rejected close of a Worker ends: the error leaves the
\* call, nothing more is closed.
WorkerCloseFailsRethrown ==
  /\ shutdown.pc = "workers"
  /\ workers[CleanupList[shutdown.i]] = {}
  /\ shutdown' = [shutdown EXCEPT !.workers = @ \cup {CleanupList[shutdown.i]},
                                  !.pc = "idle", !.i = 0, !.failed = TRUE]
  /\ UNCHANGED <<isInitialized, redis, queues, jobs, lists, locks, workers,
                 nextId, stalls, events, hist, addCall>>

\* The close of the i-th Worker rejects: the catch logs the error and cleanup
\* goes on as after a close that resolved.
WorkerCloseFails ==
  /\ shutdown.pc = "workers"
  /\ workers[CleanupList[shutdown.i]] = {}
  /\ shutdown' = IF shutdown.i < Len(CleanupList)
                 THEN [shutdown EXCEPT !.workers = @ \cup {CleanupList[shutdown.i]},
                                       !.i = @ + 1, !.failed = TRUE]
                 ELSE [shutdown EXCEPT !.workers = @ \cup {CleanupList[shutdown.i]},
                                       !.pc = "queues", !.i = 1, !.failed = TRUE]
  /\ UNCHANGED <<isInitialized, redis, queues, jobs, lists, locks, workers,
                 nextId, stalls, events, hist, addCall>>

\* The close of the i-th Queue or of its QueueEvents rejects: the catch logs
\* the error and cleanup goes on as after a close that resolved.
QueueCloseFails ==
  /\ shutdown.pc = "queues"
  /\ shutdown' = IF shutdown.i < Len(CleanupList)
                 THEN [shutdown EXCEPT !.queues = @ \cup {CleanupList[shutdown.i]},
                                       !.i = @ + 1, !.failed = TRUE]
                 ELSE [shutdown EXCEPT !.queues = @ \cup {CleanupList[shutdown.i]},
                                       !.pc = "redis", !.i = 0, !.failed = TRUE]
  /\ UNCHANGED <<isInitialized, redis, queues, jobs, lists, locks, workers,
                 nextId, stalls, events, hist, addCall>>

\* Every operation of the manager, cleanup included, with both sources, jobs
\* without priority and one error message.
NextCleanup ==
  \/ \E pingOk \in BOOLEAN, created \in 0..Len(SourceList) : Initialize(pingOk, created)
  \/ InitializeAgain
  \/ \E sourceId \in AllSources : AddJobUnknown(sourceId)
  \/ \E sourceId \in AllSources : AddJobFails(sourceId)
  \/ \E sourceId \in AllSources, userId \in UserIds : AddJob(sourceId, userId, 0)
  \/ AddJobReturn
  \/ \E id \in JobIds : CancelJob(id)
  \/ \E s \in AllSources : WorkerFetch(s)
  \/ \E s \in AllSources : \E p \in workers[s] : ProcStart(s, p)
  \/ \E s \in AllSources : \E p \in workers[s], docs \in DocCounts : OrchResolve(s, p, docs)
  \/ \E s \in AllSources : \E p \in workers[s] : ProcReturn(s, p)
  \/ \E s \in AllSources : \E p \in workers[s] : OrchReject(s, p, "timeout")
  \/ Tick
  \/ Cleanup
  \/ WorkerClosed
  \/ QueueClosed
  \/ CleanupReturn

SpecCleanup == Init /\ [][NextCleanup]_vars

\* ------------------------------------------------------------ vocabulary

\* The job ids source s's queue holds.
JobsOf(s) == DOMAIN jobs[s]

\* The state getJobStatus reports for a job of s's queue.
StateOf(s, id) == GetState(QueueOf(s), id)

Terminal(s, id) == StateOf(s, id) \in {"completed", "failed"}

\* The job a processor of some worker is working on.
InProgress(id) == \E s \in AllSources : \E p \in workers[s] : p.job = id

\* Submission, processing in which every extraction resolves, and cleanup
\* whose closes may reject, with both sources.
NextShutdown ==
  \/ \E pingOk \in BOOLEAN, created \in 0..Len(SourceList) : Initialize(pingOk, created)
  \/ \E sourceId \in Sources : AddJobFails(sourceId)
  \/ \E sourceId \in Sources, userId \in UserIds : AddJob(sourceId, userId, 0)
  \/ AddJobReturn
  \/ \E s \in Sources : WorkerFetch(s)
  \/ \E s \in Sources : \E p \in workers[s] : ProcStart(s, p)
  \/ \E s \in Sources : \E p \in workers[s], docs \in DocCounts : OrchResolve(s, p, docs)
  \/ \E s \in Sources : \E p \in workers[s] : ProcReturn(s, p)
  \/ Cleanup
  \/ WorkerClosed
  \/ WorkerCloseFails
  \/ QueueClosed
  \/ QueueCloseFails
  \/ CleanupReturn

SpecShutdown == Init /\ [][NextShutdown]_vars

\* ----------------------------------------------------------- two sources
\* Submission and processing on the two sources side by side, jobs without
\* priority, one error message, no cancel.
NextPair ==
  \/ \E pingOk \in BOOLEAN, created \in 0..Len(SourceList) : Initialize(pingOk, created)
  \/ \E sourceId \in Sources, userId \in UserIds : AddJob(sourceId, userId, 0)
  \/ AddJobReturn
  \/ \E s \in Sources : WorkerFetch(s)
  \/ \E s \in Sources : \E p \in workers[s] : ProcStart(s, p)
  \/ \E s \in Sources : \E p \in workers[s], docs \in DocCounts : OrchResolve(s, p, docs)
  \/ \E s \in Sources : \E p \in workers[s] : ProcReturn(s, p)
  \/ \E s \in Sources : \E p \in workers[s] : OrchReject(s, p, "timeout")
  \/ Tick

SpecPair == Init /\ [][NextPair]_vars

\* ------------------------------------------------------------- retention
\* Redis outlives the process: a manager that starts finds in its source's
\* queue the completed and failed jobs earlier runs left there, up to the
\* retention limits. Their ids are outside JobIds, the oldest first.

OldCompleted(n) == [i \in 1..n |-> 100 + i]
OldFailed(n) == [i \in 1..n |-> 300 + i]

\* How many completed and failed jobs the earlier runs left.
LeftCompleted == {removeOnComplete - 1, removeOnComplete}
LeftFailed == {removeOnFail - 1, removeOnFail}

\* The hash of a job an earlier run completed, or failed for good.
OldJob(completed) ==
  IF completed
  THEN [NewJob("a", "u1", 0) EXCEPT
          !.progress = 100, !.attemptsMade = 1, !.attemptsStarted = 1,
          !.returnvalue = <<2>>, !.processedOn = TRUE, !.finishedOn = TRUE]
  ELSE [NewJob("a", "u1", 0) EXCEPT
          !.progress = 10, !.attemptsMade = attempts, !.attemptsStarted = attempts,
          !.failedReason = "timeout", !.processedOn = TRUE, !.finishedOn = TRUE]

InitRetention ==
  \E c \in LeftCompleted, f \in LeftFailed :
    /\ isInitialized = FALSE
    /\ redis = "open"
    /\ queues = {}
    /\ jobs = [s \in AllSources |->
                 IF s = "a"
                 THEN [id \in SeqToSet(OldCompleted(c)) \cup SeqToSet(OldFailed(f)) |->
                         OldJob(id \in SeqToSet(OldCompleted(c)))]
                 ELSE << >>]
    /\ lists = [s \in AllSources |->
                  IF s = "a"
                  THEN [EmptyLists EXCEPT !.completed = OldCompleted(c),
                                          !.failed = OldFailed(f)]
                  ELSE EmptyLists]
    /\ locks = [s \in AllSources |-> {}]
    /\ workers = [s \in AllSources |-> {}]
    /\ nextId = 0
    /\ stalls = 0
    /\ events = [j \in JobIds |-> <<>>]
    /\ hist = [j \in JobIds |-> NoHist]
    /\ addCall = NoCall
    /\ shutdown = NoShutdown

\* Submission and processing on a manager with a queue for the first source,
\* jobs without priority, one error message.
NextRetention ==
  \/ \E pingOk \in BOOLEAN, created \in 0..1 : Initialize(pingOk, created)
  \/ \E sourceId \in Sources, userId \in UserIds : AddJob(sourceId, userId, 0)
  \/ AddJobReturn
  \/ \E s \in Sources : WorkerFetch(s)
  \/ \E s \in Sources : \E p \in workers[s] : ProcStart(s, p)
  \/ \E s \in Sources : \E p \in workers[s], docs \in DocCounts : OrchResolve(s, p, docs)
  \/ \E s \in Sources : \E p \in workers[s] : ProcReturn(s, p)
  \/ \E s \in Sources : \E p \in workers[s] : OrchReject(s, p, "timeout")
  \/ Tick

SpecRetention == InitRetention /\ [][NextRetention]_vars

\* ------------------------------------------------- submissions without end
\* A manager that is submitted jobs for ever holds only so many of them at a
\* time: a job record leaves Redis when it is removed (cancelJob, or the
\* retention limits). generateJobId names a new job by an id no job in Redis
\* has; here the id is the least number that names no job any more (none in a
\* queue, none in a processor, none in an addJob in flight), with the history
\* of its earlier bearer forgotten.

\* How many jobs Redis holds at a time.
MaxLive == 3

LiveIds == 1..MaxLive

InitLive ==
  /\ isInitialized = FALSE
  /\ redis \in {"null", "open"}
  /\ queues = {}
  /\ jobs = [s \in AllSources |-> << >>]
  /\ lists = [s \in AllSources |-> EmptyLists]
  /\ locks = [s \in AllSources |-> {}]
  /\ workers = [s \in AllSources |-> {}]
  /\ nextId = 0
  /\ stalls = 0
  /\ events = [j \in LiveIds |-> <<>>]
  /\ hist = [j \in LiveIds |-> NoHist]
  /\ addCall = NoCall
  /\ shutdown = NoShutdown

\* The ids that name no job.
FreeIds ==
  {id \in LiveIds : /\ \A s \in AllSources : id \notin DOMAIN jobs[s]
                    /\ ~InProgress(id)
                    /\ ~(addCall.active /\ addCall.jobId = id)}

\* addJob, up to the await of queue.add, the new job named by a free id.
AddJobFresh(sourceId, userId, priority) ==
  /\ ~AddJobThrows(sourceId)
  /\ redis = "open"
  /\ ~addCall.active
  /\ FreeIds # {}
  /\ LET id == CHOOSE x \in FreeIds : \A y \in FreeIds : x <= y
     IN  /\ SetQueue(sourceId,
                     QueueAdd(QueueOf(sourceId), id, sourceId, userId, priority))
         /\ addCall' = [active |-> TRUE, jobId |-> id,
                        sourceId |-> sourceId, userId |-> userId]
         /\ events' = [events EXCEPT ![id] = <<>>]
         /\ hist' = [hist EXCEPT ![id] = NoHist]
  /\ UNCHANGED <<shutdown, isInitialized, redis, queues, workers, nextId, stalls>>

\* Submissions without end to the first source, with and without priority,
\* processing in which every extraction resolves, and cancels.
NextLive ==
  \/ \E pingOk \in BOOLEAN, created \in 0..1 : Initialize(pingOk, created)
  \/ \E sourceId \in Sources, userId \in UserIds, priority \in Priorities :
       AddJobFresh(sourceId, userId, priority)
  \/ AddJobReturn
  \/ \E id \in LiveIds : CancelJob(id)
  \/ \E s \in Sources : WorkerFetch(s)
  \/ \E s \in Sources : \E p \in workers[s] : ProcStart(s, p)
  \/ \E s \in Sources : \E p \in workers[s], docs \in DocCounts : OrchResolve(s, p, docs)
  \/ \E s \in Sources : \E p \in workers[s] : ProcReturn(s, p)

\* Fair scheduling: a Worker that can fetch a job does, a processor that can
\* take its next step does, and every call of the orchestrator ends. Nothing
\* is asked of the callers of addJob and cancelJob.
FairLive ==
  \A s \in Sources :
    /\ WF_vars(WorkerFetch(s))
    /\ WF_vars(\E p \in workers[s] : ProcStart(s, p))
    /\ WF_vars(\E p \in workers[s], docs \in DocCounts : OrchResolve(s, p, docs))
    /\ WF_vars(\E p \in workers[s] : ProcReturn(s, p))

SpecLive == InitLive /\ [][NextLive]_vars /\ FairLive

\* ------------------------------------------------------- ids that repeat
\* generateJobId builds the id from the sourceId, Date.now() and nine
\* characters of Math.random(): it looks at no id handed out before. Two calls
\* for one source in the same millisecond that draw the same characters give
\* the same id; queue.add then finds the id in the queue and stores nothing.

\* addJob, up to the await of queue.add, with id the result of generateJobId:
\* the next new id, or the id of a job the source's queue holds.
AddJobDrawn(sourceId, userId, priority, id) ==
  /\ ~AddJobThrows(sourceId)
  /\ redis = "open"
  /\ ~addCall.active
  /\ \/ id = GenerateJobId /\ nextId < MaxJobs
     \/ id \in DOMAIN jobs[sourceId]
  /\ SetQueue(sourceId,
              QueueAdd(QueueOf(sourceId), id, sourceId, userId, priority))
  /\ nextId' = IF id > nextId THEN id ELSE nextId
  /\ addCall' = [active |-> TRUE, jobId |-> id,
                 sourceId |-> sourceId, userId |-> userId]
  /\ UNCHANGED <<shutdown, isInitialized, redis, queues, workers, stalls, events, hist>>

\* Submissions whose ids may repeat, without userId, and processing, on a
\* manager with a queue for the first source only.
NextIds ==
  \/ \E pingOk \in BOOLEAN, created \in 0..1 : Initialize(pingOk, created)
  \/ \E sourceId \in Sources, priority \in Priorities, id \in JobIds :
       AddJobDrawn(sourceId, "", priority, id)
  \/ AddJobReturn
  \/ \E id \in JobIds : CancelJob(id)
  \/ \E s \in Sources : WorkerFetch(s)
  \/ \E s \in Sources : \E p \in workers[s] : ProcStart(s, p)
  \/ \E s \in Sources : \E p \in workers[s], docs \in DocCounts : OrchResolve(s, p, docs)
  \/ \E s \in Sources : \E p \in workers[s] : ProcReturn(s, p)
  \/ \E s \in Sources : \E p \in workers[s] : OrchReject(s, p, "timeout")
  \/ Tick

SpecIds == Init /\ [][NextIds]_vars

\* ------------------------------------------------------- fair scheduling
\* Finitely many submissions (MaxJobs of them) to a manager with a queue for
\* the first source, with and without priority, cancels, and processing in
\* which an extraction resolves or rejects.
NextFair ==
  \/ \E pingOk \in BOOLEAN, created \in 0..1 : Initialize(pingOk, created)
  \/ \E sourceId \in Sources, userId \in UserIds, priority \in Priorities :
       AddJob(sourceId, userId, priority)
  \/ AddJobReturn
  \/ \E id \in JobIds : CancelJob(id)
  \/ \E s \in Sources : WorkerFetch(s)
  \/ \E s \in Sources : \E p \in workers[s] : ProcStart(s, p)
  \/ \E s \in Sources : \E p \in workers[s], docs \in DocCounts : OrchResolve(s, p, docs)
  \/ \E s \in Sources : \E p \in workers[s] : ProcReturn(s, p)
  \/ \E s \in Sources : \E p \in workers[s] : OrchReject(s, p, "timeout")
  \/ Tick

\* Fair scheduling: a Worker that can fetch a job does, a processor that can
\* take its next step does, every call of the orchestrator resolves or
\* rejects, and time passes. Nothing is asked of the callers of addJob and
\* cancelJob.
FairSchedule ==
  /\ WF_vars(Tick)
  /\ \A s \in Sources :
       /\ WF_vars(WorkerFetch(s))
       /\ WF_vars(\E p \in workers[s] : ProcStart(s, p))
       /\ WF_vars(\E p \in workers[s] :
                    \/ \E docs \in DocCounts : OrchResolve(s, p, docs)
                    \/ OrchReject(s, p, "timeout"))
       /\ WF_vars(\E p \in workers[s] : ProcReturn(s, p))

SpecFair == Init /\ [][NextFair]_vars /\ FairSchedule

\* ----------------------------------------------------------------- claims

\* C1, as the spec states it: for every source, at every moment, at most one
\* job is RUNNING, that is, in the source's active list.
C1_AtMostOneActive ==
  \A s \in AllSources : Len(lists[s].active) <= 1

\* C1, amended: for every source, at every moment, at most one job is being
\* processed and at most one job is locked by the source's worker; stalls and
\* cancels do not change that. (The active list can hold a second job: one
\* whose lock expired and that the stalled-jobs check has not moved yet.)
C1_AtMostOneProcessed ==
  \A s \in AllSources :
    /\ Cardinality(workers[s]) <= concurrency
    /\ Cardinality(locks[s]) <= concurrency
    /\ \A p \in workers[s] : \A id \in locks[s] : p.job = id

\* A source whose active list holds two jobs while its worker processes one.
C1_Witness ==
  \E s \in AllSources :
    /\ Len(lists[s].active) = 2
    /\ Cardinality(workers[s]) = 1
    /\ Cardinality(locks[s]) = 1

\* C2: a job's attemptsMade never exceeds the attempts limit (3), and a job
\* whose attemptsMade is 3 and whose last attempt failed is FAILED and stays
\* FAILED with that count for as long as its record exists.
C2_Bound ==
  \A s \in AllSources : \A id \in JobsOf(s) :
    /\ jobs[s][id].attemptsMade <= attempts
    /\ (jobs[s][id].attemptsMade = attempts /\ StateOf(s, id) # "completed")
         => StateOf(s, id) = "failed"

C2_Stays ==
  \A s \in AllSources : \A id \in JobsOf(s) :
    (StateOf(s, id) = "failed" /\ id \in DOMAIN jobs'[s])
      => /\ StateOf(s, id)' = "failed"
         /\ jobs'[s][id].attemptsMade = jobs[s][id].attemptsMade

C2_AttemptsBounded == []C2_Bound /\ [][C2_Stays]_vars

\* A job that is FAILED after its third attempt was rejected.
C2_Witness ==
  \E s \in AllSources : \E id \in JobsOf(s) :
    /\ StateOf(s, id) = "failed"
    /\ jobs[s][id].attemptsMade = attempts
    /\ hist[id].rejects = attempts
    /\ jobs[s][id].failedReason = hist[id].lastError

\* C3: once a job is COMPLETED or FAILED it is never dequeued again, never
\* becomes PENDING or RUNNING again, and its status, progress, attemptsMade,
\* result and failureReason never change, for as long as its record exists;
\* stall handling included.
C3_TerminalImmutable ==
  [][\A s \in AllSources : \A id \in JobsOf(s) :
       (Terminal(s, id) /\ id \in DOMAIN jobs'[s])
         => /\ StateOf(s, id)' = StateOf(s, id)
            /\ jobs'[s][id] = jobs[s][id]]_vars

\* C4: a job whose orchestrator call is rejected on each of its three
\* attempts ends FAILED with attemptsMade 3 and the failure reason of the last
\* rejection; it was dequeued three times and no further attempt starts.
C4_ThreeRejections ==
  \A id \in JobIds :
    /\ hist[id].rejects <= attempts
    /\ hist[id].rejects = attempts =>
         /\ hist[id].dequeues = attempts
         /\ hist[id].calls = attempts
         /\ ~InProgress(id)
         /\ \A s \in AllSources : id \in JobsOf(s) =>
              /\ StateOf(s, id) = "failed"
              /\ jobs[s][id].attemptsMade = attempts
              /\ jobs[s][id].failedReason = hist[id].lastError

\* A job FAILED after three rejections, the last with the message "parse".
C4_Witness ==
  \E s \in AllSources : \E id \in JobsOf(s) :
    /\ hist[id].rejects = attempts
    /\ hist[id].lastError = "parse"
    /\ StateOf(s, id) = "failed"
    /\ jobs[s][id].failedReason = "parse"

\* C5: a job whose orchestrator call is rejected k times (k < 3) and then
\* resolves ends COMPLETED with attemptsMade k + 1.
C5_ResolveAfterRejections ==
  \A s \in AllSources : \A id \in JobsOf(s) :
    (hist[id].resolves >= 1 /\ ~InProgress(id))
      => /\ StateOf(s, id) = "completed"
         /\ hist[id].resolves = 1
         /\ hist[id].rejects < attempts
         /\ jobs[s][id].attemptsMade = hist[id].rejects + 1

\* A job COMPLETED on its third attempt, after two rejections.
C5_Witness ==
  \E s \in AllSources : \E id \in JobsOf(s) :
    /\ StateOf(s, id) = "completed"
    /\ hist[id].rejects = 2
    /\ hist[id].resolves = 1
    /\ jobs[s][id].attemptsMade = 3

\* C6: addJob for a source that has no queue throws before it does anything:
\* such a source never has a job record, a queued id, a lock or a processor,
\* no job names a source without a queue, and no id that was not handed out
\* has a notification or a history.
C6_UnknownSource ==
  /\ \A s \in AllSources \ queues :
       /\ JobsOf(s) = {}
       /\ lists[s] = EmptyLists
       /\ locks[s] = {}
       /\ workers[s] = {}
  /\ \A s \in AllSources : \A id \in JobsOf(s) : jobs[s][id].sourceId \in queues
  /\ \A id \in JobIds : id > nextId => events[id] = <<>> /\ hist[id] = NoHist

\* An initialized manager with a queue and jobs for one source and none for
\* the other: addJob for the other source, and for the unknown one, throws.
C6_Witness ==
  /\ isInitialized
  /\ queues = {"a"}
  /\ AddJobThrows("b")
  /\ AddJobThrows(UnknownSource)
  /\ JobsOf("a") # {}
  /\ nextId = MaxJobs

\* C7: addJob for a known source creates exactly one job, in that source's
\* queue, PENDING (waiting or prioritized) with progress 0 and attemptsMade 0;
\* it changes no other job and no other source's queue; when it returns,
\* getJobStatus of the returned id is non-null and names that source.
C7_AddStep ==
  \A s \in AllSources : \A id \in JobIds :
    (nextId' = nextId + 1 /\ id = nextId' /\ s = addCall'.sourceId) =>
        /\ id \notin JobsOf(s)
        /\ DOMAIN jobs'[s] = JobsOf(s) \cup {id}
        /\ \A x \in JobsOf(s) : jobs'[s][x] = jobs[s][x] /\ StateOf(s, x)' = StateOf(s, x)
        /\ StateOf(s, id)' \in {"waiting", "prioritized"}
        /\ jobs'[s][id].progress = 0
        /\ jobs'[s][id].attemptsMade = 0
        /\ \A s2 \in AllSources \ {s} :
             jobs'[s2] = jobs[s2] /\ lists'[s2] = lists[s2] /\ locks'[s2] = locks[s2]
        /\ GetJobStatus(id)' # <<>>
        /\ GetJobStatus(id)'[1].sourceId = s

C7_ReturnStep ==
  \A s \in AllSources : \A id \in JobIds :
    (addCall.active /\ ~addCall'.active /\ id = addCall.jobId /\ s = addCall.sourceId) =>
        /\ GetJobStatus(id)' # <<>>
        /\ GetJobStatus(id)'[1].sourceId = s

C7_AddJobCreatesOne == [][C7_AddStep /\ C7_ReturnStep]_vars

\* addJob has just queued a prioritized job for one source while the other
\* source has a job of its own.
C7_Witness ==
  /\ addCall.active
  /\ StateOf(addCall.sourceId, addCall.jobId) = "prioritized"
  /\ jobs[addCall.sourceId][addCall.jobId].progress = 0
  /\ \E s2 \in AllSources \ {addCall.sourceId} : JobsOf(s2) # {}

\* C8: cancelJob of a job that waits and was never dequeued returns true and
\* removes it: afterwards getJobStatus is null, no list holds the job, no
\* processor ever works on it (it is never dequeued) and the orchestrator is
\* called for it no more often than it had been dequeued before: never.
C8_CancelWaiting ==
  /\ \A s \in queues : \A id \in JobsOf(s) :
       (StateOf(s, id) \in {"waiting", "prioritized"} /\ hist[id].dequeues = 0)
         => CancelJobResult(id)
  /\ \A id \in JobIds :
       hist[id].removedFrom \in {"waiting", "prioritized"}
         => /\ GetJobStatus(id) = <<>>
            /\ \A s \in AllSources : StateOf(s, id) = "unknown"
            /\ ~InProgress(id)
            /\ hist[id].calls = hist[id].dequeues

\* A job cancelled while it waited, and a later job of the same source that
\* has been processed since.
C8_Witness ==
  \E id \in JobIds :
    /\ hist[id].removedFrom = "waiting"
    /\ hist[id].dequeues = 0
    /\ hist[id].calls = 0
    /\ GetJobStatus(id) = <<>>
    /\ \E s \in AllSources : \E x \in JobsOf(s) : x > id /\ StateOf(s, x) = "completed"

\* C9: cancelJob of a job that is COMPLETED or FAILED returns false (and so
\* leaves the record as it is).
C9_CancelTerminalRefused ==
  \A s \in queues : \A id \in JobsOf(s) :
    Terminal(s, id) => ~CancelJobResult(id)

\* C10: cancelJob of a RUNNING job whose orchestrator call is under way
\* returns true.
C10_CancelRunningAccepted ==
  \A s \in queues : \A p \in workers[s] :
    (p.pc = "extracting" /\ p.job \in JobsOf(s) /\ StateOf(s, p.job) = "active")
      => CancelJobResult(p.job)

\* Job x of source s is dequeued for the first time in this step.
FirstDequeue(s, x) ==
  /\ x \in JobsOf(s)
  /\ hist[x].dequeues = 0
  /\ hist'[x].dequeues = 1

\* Job y of source s waits and has never been dequeued.
WaitsFresh(s, y) ==
  /\ y \in JobsOf(s)
  /\ hist[y].dequeues = 0
  /\ StateOf(s, y) \in {"waiting", "prioritized"}

\* C11, as the spec states it: of two jobs of one source that wait and were
\* never dequeued, the one with the larger priority value is dequeued first:
\* a job is dequeued only when no waiting job has a larger value.
C11_LargerFirst ==
  [][\A s \in AllSources : \A x, y \in JobIds :
       (FirstDequeue(s, x) /\ WaitsFresh(s, y))
         => jobs[s][x].priority >= jobs[s][y].priority]_vars

\* C11, amended: of two jobs of one source that wait and were never dequeued,
\* the one with the smaller priority value is dequeued first, whichever was
\* submitted first; 0 (no priority, the default) comes before every positive
\* value.
C11_SmallerFirst ==
  [][\A s \in AllSources : \A x, y \in JobIds :
       (FirstDequeue(s, x) /\ WaitsFresh(s, y))
         => jobs[s][x].priority <= jobs[s][y].priority]_vars

\* J1 was submitted with priority 0, J2 later with priority 5; J1 has been
\* dequeued and J2 still waits.
C11_Witness ==
  \E s \in AllSources : \E x, y \in JobsOf(s) :
    /\ x < y
    /\ jobs[s][x].priority = 0
    /\ jobs[s][y].priority = 5
    /\ hist[x].dequeues = 1
    /\ hist[x].calls = 0
    /\ WaitsFresh(s, y)

\* C12: jobs of one source with equal priority that were never dequeued (not
\* delayed by a retry) are dequeued in the order addJob queued them.
C12_Fifo ==
  [][\A s \in AllSources : \A x, y \in JobIds :
       (FirstDequeue(s, x) /\ WaitsFresh(s, y) /\ x # y
          /\ jobs[s][x].priority = jobs[s][y].priority)
         => x < y]_vars

\* Two jobs of equal positive priority: the first was dequeued, the second
\* still waits.
C12_Witness ==
  \E s \in AllSources : \E x, y \in JobsOf(s) :
    /\ x < y
    /\ jobs[s][x].priority = 5
    /\ jobs[s][y].priority = 5
    /\ hist[x].dequeues = 1
    /\ WaitsFresh(s, y)

\* A processor has the job's orchestrator call resolved and has not returned.
Resolved(s, id) == \E p \in workers[s] : p.job = id /\ p.pc = "resolved"

C14_ResetOnRetry ==
  \A s \in AllSources : \A id \in JobsOf(s) :
    /\ (jobs[s][id].attemptsMade >= 1
          /\ StateOf(s, id) \in {"delayed", "waiting", "prioritized"})
         => jobs[s][id].progress = 0
    /\ (jobs[s][id].attemptsMade >= 1
          /\ \E p \in workers[s] : p.job = id /\ p.pc = "start")
         => jobs[s][id].progress = 0

\* The notifications with the given status that were sent for a job.
Sent(id, status) == SelectSeq(events[id], LAMBDA e : e.status = status)

\* C15: no FAILED notification is sent for a failed attempt that is retried:
\* a job that has a FAILED notification is FAILED for good (or its record is
\* gone), and it has at most one.
C15_FailedOnlyTerminal ==
  \A id \in JobIds :
    /\ Len(Sent(id, "FAILED")) <= 1
    /\ \A s \in AllSources :
         (id \in JobsOf(s) /\ Sent(id, "FAILED") # <<>>) => StateOf(s, id) = "failed"

\* C16: a sendEvent that throws does not affect the execution of jobs: the
\* orchestrator is called for every attempt that is counted, a job whose call
\* resolved ends COMPLETED with the attempts its rejections account for, and
\* a failure reason is the message of a rejection.
C16_NotifierHarmless ==
  \A s \in AllSources : \A id \in JobsOf(s) :
    /\ jobs[s][id].attemptsMade <= hist[id].calls
    /\ (hist[id].resolves >= 1 /\ ~InProgress(id))
         => /\ StateOf(s, id) = "completed"
            /\ jobs[s][id].attemptsMade = hist[id].rejects + 1
    /\ jobs[s][id].failedReason \in ErrorMessages \cup {""}

\* The orchestrator call of job id of source s is rejected in this step.
Rejected(s, id) ==
  /\ id \in JobsOf(s)
  /\ hist'[id].rejects = hist[id].rejects + 1

\* C17: a rejection of extractDocuments ends in the worker: it makes exactly
\* one transition of that job, RUNNING to a delayed retry while attempts
\* remain and to FAILED otherwise, with the attempt counted and the message
\* stored; no other job changes except the one the runner takes next, and the
\* runner is free for, or already at the start of, a later job.
C17_RejectionIsOneTransition ==
  [][\A s \in AllSources : \A id \in JobIds :
       Rejected(s, id) =>
         /\ StateOf(s, id) = "active"
         /\ id \in DOMAIN jobs'[s]
         /\ jobs'[s][id].attemptsMade = jobs[s][id].attemptsMade + 1
         /\ StateOf(s, id)' =
              IF jobs'[s][id].attemptsMade < attempts THEN "delayed" ELSE "failed"
         /\ jobs'[s][id].failedReason = hist'[id].lastError
         /\ ~InProgress(id)'
         /\ \A p \in workers'[s] : p.pc = "start" /\ StateOf(s, p.job)' = "active"
         /\ Cardinality(workers'[s]) <= concurrency
         /\ \A x \in JobsOf(s) \ {id} :
              \/ jobs'[s][x] = jobs[s][x] /\ StateOf(s, x)' = StateOf(s, x)
              \/ \E p \in workers'[s] : p.job = x
         /\ \A s2 \in AllSources \ {s} :
              jobs'[s2] = jobs[s2] /\ lists'[s2] = lists[s2] /\ workers'[s2] = workers[s2]]_vars

\* A job that failed for good after three rejections and a later job of the
\* same source that the runner completed afterwards.
C17_Witness ==
  \E s \in AllSources : \E id, x \in JobsOf(s) :
    /\ id < x
    /\ hist[id].rejects = attempts
    /\ StateOf(s, id) = "failed"
    /\ hist[x].rejects = 1
    /\ StateOf(s, x) = "completed"

\* addJob has returned job id's id (its PENDING notification is behind it).
Returned(id) == id <= nextId /\ ~(addCall.active /\ addCall.jobId = id)

\* C18: for a job submitted with a userId, one PENDING notification
\* (progress 0) once addJob has returned, one RUNNING notification
\* (progress 10) for every start of its processing, one COMPLETED
\* notification (progress 100) when it is COMPLETED and at least one FAILED
\* notification (progress 0) when it is FAILED; for a job submitted without
\* userId, none at all.
C18_Notifications ==
  \A s \in AllSources : \A id \in JobsOf(s) :
    IF jobs[s][id].userId = ""
    THEN events[id] = <<>>
    ELSE /\ Sent(id, "PENDING") =
              IF Returned(id) THEN <<[status |-> "PENDING", progress |-> 0]>> ELSE <<>>
         /\ Len(Sent(id, "RUNNING")) = hist[id].calls
         /\ \A i \in 1..Len(events[id]) :
              events[id][i].progress =
                CASE events[id][i].status = "RUNNING"   -> 10
                  [] events[id][i].status = "COMPLETED" -> 100
                  [] OTHER                              -> 0
         /\ Sent(id, "COMPLETED") =
              IF StateOf(s, id) = "completed"
              THEN <<[status |-> "COMPLETED", progress |-> 100]>> ELSE <<>>
         /\ StateOf(s, id) = "failed" => Sent(id, "FAILED") # <<>>

\* A job without userId that is COMPLETED without any notification, and a job
\* of a user that is FAILED after its notifications.
C18_Witness ==
  \E s \in AllSources : \E x, y \in JobsOf(s) :
    /\ jobs[s][x].userId = ""
    /\ StateOf(s, x) = "completed"
    /\ events[x] = <<>>
    /\ jobs[s][y].userId # ""
    /\ StateOf(s, y) = "failed"
    /\ Len(Sent(y, "RUNNING")) = attempts
    /\ Sent(y, "PENDING") # <<>>

\* C19: on an initialized manager initialize changes nothing: the manager
\* stays initialized, with the same queues (and their workers) and the same
\* connection, whatever sources are passed.
C19_InitializeIdempotent ==
  [][isInitialized => (isInitialized' /\ queues' = queues /\ redis' = redis)]_vars

\* An initialized manager that got a queue for one of its two sources and has
\* processed a job since: initialize on it leaves the other source without a
\* queue.
C19_Witness ==
  /\ isInitialized
  /\ queues = {"a"}
  /\ \E id \in JobsOf("a") : StateOf("a", id) = "completed"
  /\ AddJobThrows("b")

\* C20: a manager initialized without Redis, or with a Redis that did not
\* answer, is initialized and has no queue, and a manager initialized without
\* a queue has every addJob throw: no job id was ever handed out and no queue
\* holds a job.
C20_Degraded ==
  /\ (isInitialized /\ redis = "null") => queues = {}
  /\ (isInitialized /\ queues = {}) =>
       /\ \A s \in AllSources : AddJobThrows(s) /\ JobsOf(s) = {} /\ lists[s] = EmptyLists
       /\ nextId = 0
       /\ addCall = NoCall
  /\ ~isInitialized => queues = {}

\* A manager without Redis after initialize.
C20_Witness ==
  /\ isInitialized
  /\ redis = "null"
  /\ \A s \in AllSources : AddJobThrows(s)

\* C21: once initialize has completed, the mapping from sourceId to Queue and
\* Worker never changes: whatever is called afterwards (addJob, getJobStatus,
\* cancelJob, cleanup, initialize again, also after a cleanup), no entry is
\* added, removed or replaced. The mapping changes only in the first
\* initialize, on a manager whose connection has not quit and that has no
\* entry yet.
C21_MappingFixed ==
  [][(isInitialized \/ redis # "open" \/ queues # {}) => queues' = queues]_vars

\* initialize has been called again after a cleanup, on a manager that has
\* queues.
C21_Witness ==
  /\ isInitialized
  /\ redis = "end"
  /\ queues # {}
  /\ queues # SeqToSet(SourceList)

\* C22: cleanup closes every Worker, then every Queue, and only then the
\* connection: no Queue is closed while a Worker is open, the connection is
\* never closed while a Worker or a Queue is open, and once closed it stays
\* closed (it is closed once, whatever is called afterwards).
C22_CloseOrder ==
  [][/\ shutdown'.queues # {} => queues' \subseteq shutdown'.workers
     /\ redis' = "end" => (/\ queues' \subseteq shutdown'.workers
                           /\ queues' \subseteq shutdown'.queues)
     /\ redis = "end" => redis' = "end"]_vars

\* cleanup has closed the two Workers, the two Queues and the connection of a
\* manager that has processed a job.
C22_Witness ==
  /\ redis = "end"
  /\ shutdown.workers = SeqToSet(SourceList)
  /\ shutdown.queues = SeqToSet(SourceList)
  /\ \E s \in AllSources : lists[s].completed # <<>>

\* C23: after cleanup has been invoked the manager accepts no new work: from
\* the call of cleanup on, no addJob stores a job and no Worker starts one, on
\* any source.
C23_NoNewWork ==
  [][(shutdown.pc # "idle" \/ redis = "end") =>
       /\ nextId' = nextId
       /\ \A id \in JobIds : hist'[id].dequeues = hist[id].dequeues]_vars

\* C24: for every source, getQueueStats returns waiting, active, completed and
\* failed equal to the number of the source's jobs that are pending (waiting
\* for their first attempt or for a retry), running, completed and failed, and
\* total equal to the number of the source's jobs.
C24_StatsCountPartitions ==
  \A s \in queues \ Unreachable :
    LET st == GetQueueStats[s]
        n(states) == Cardinality({id \in JobsOf(s) : StateOf(s, id) \in states})
    IN  /\ st.waiting = n({"waiting", "prioritized", "delayed"})
        /\ st.active = n({"active"})
        /\ st.completed = n({"completed"})
        /\ st.failed = n({"failed"})
        /\ st.total = Cardinality(JobsOf(s))

\* C25: a job whose n-th attempt fails with attempts left waits
\* baseDelay * 2^(n-1) before its retry: the failure leaves it delayed by 5000
\* ms after the first failure and by 10000 ms after the second, only the
\* passing of time shortens the delay, and no Worker dequeues the job before
\* the delay has elapsed.
C25_Backoff ==
  [][\A s \in AllSources : \A id \in JobsOf(s) :
       id \in DOMAIN jobs'[s] =>
         /\ hist'[id].rejects = hist[id].rejects + 1 /\ StateOf(s, id)' = "delayed"
              => /\ jobs'[s][id].attemptsMade \in 1..(attempts - 1)
                 /\ jobs'[s][id].delay =
                      IF jobs'[s][id].attemptsMade = 1 THEN 5000 ELSE 10000
         /\ jobs'[s][id].delay # jobs[s][id].delay /\ jobs[s][id].delay > 0
              => jobs'[s][id].delay = jobs[s][id].delay - backoffDelay
         /\ hist'[id].dequeues > hist[id].dequeues => jobs[s][id].delay <= 0
         /\ jobs[s][id].delay > 0 => StateOf(s, id) = "delayed"]_vars

\* Half of the 10 s that follow a job's second failure have passed, and the
\* Worker of its source is running another job.
C25_Witness ==
  \E s \in AllSources : \E x, y \in JobsOf(s) :
    /\ StateOf(s, x) = "delayed"
    /\ jobs[s][x].attemptsMade = 2
    /\ jobs[s][x].delay = 5000
    /\ StateOf(s, y) = "active"
    /\ \E p \in workers[s] : p.job = y /\ p.pc = "extracting"

\* C26: a running job that stalls is treated as a failed attempt and goes
\* through the retry policy: when the stalled-jobs check takes the job out of
\* the active list, the attempt is counted, the job waits for its retry if
\* attempts are left and is failed for good otherwise, and the Worker's slot
\* is free of it.
C26_StallIsRetry ==
  [][\A s \in AllSources : \A id \in JobsOf(s) :
       (/\ StateOf(s, id) = "active"
        /\ id \notin locks[s]
        /\ id \in DOMAIN jobs'[s]
        /\ StateOf(s, id)' # "active")
       => /\ jobs'[s][id].attemptsMade = jobs[s][id].attemptsMade + 1
          /\ StateOf(s, id)' =
               IF jobs'[s][id].attemptsMade < attempts THEN "delayed" ELSE "failed"
          /\ ~InProgress(id)']_vars

\* C27: under fair scheduling, with every call of the orchestrator ending,
\* every job that waits in a queue, with or without priority, is eventually
\* dequeued unless it is cancelled, also while new jobs keep being submitted
\* to its source.
C27_NoStarvation ==
  \A s \in Sources : \A id \in LiveIds :
    (id \in JobsOf(s) /\ StateOf(s, id) \in {"waiting", "prioritized"})
      ~> (id \notin JobsOf(s) \/ StateOf(s, id) \notin {"waiting", "prioritized"})

\* How a retained list changes when a job ends: the job is appended, and the
\* oldest entry is evicted, with its record, when the list held max entries.
Retained(old, new, max, J) ==
  /\ Len(new) <= max
  /\ new # old =>
       /\ Len(new) = IF Len(old) < max THEN Len(old) + 1 ELSE max
       /\ new[Len(new)] \in JobIds
       /\ SubSeq(new, 1, Len(new) - 1) = IF Len(old) < max THEN old ELSE Tail(old)
       /\ Len(old) = max => Head(old) \notin DOMAIN J

\* C28: every source's completed list holds at most 50 jobs and its failed
\* list at most 100; a job that ends while the list is full evicts the oldest
\* entry of that list and nothing else.
C28_Retention ==
  [][\A s \in AllSources :
       /\ Retained(lists[s].completed, lists'[s].completed, 50, jobs'[s])
       /\ Retained(lists[s].failed, lists'[s].failed, 100, jobs'[s])
       /\ \A id \in DOMAIN jobs[s] \ DOMAIN jobs'[s] :
            \/ /\ lists'[s].completed # lists[s].completed
               /\ id = Head(lists[s].completed)
            \/ /\ lists'[s].failed # lists[s].failed
               /\ id = Head(lists[s].failed)]_vars

\* A job has completed and another has failed for good in a queue that held
\* 50 completed and 100 failed jobs: the oldest of each is gone.
C28_Witness ==
  /\ Len(lists["a"].completed) = 50
  /\ Len(lists["a"].failed) = 100
  /\ OldCompleted(1)[1] \notin JobsOf("a")
  /\ OldCompleted(2)[2] \in JobsOf("a")
  /\ OldFailed(1)[1] \notin JobsOf("a")
  /\ OldFailed(2)[2] \in JobsOf("a")
  /\ \E x, y \in JobIds : StateOf("a", x) = "completed" /\ StateOf("a", y) = "failed"

\* C29: a job running or hung on one source never delays another source:
\* whenever a source has a job that is eligible for dequeue and its Worker
\* runs none, the Worker can start that job, whatever the queues and Workers
\* of the other sources are doing.
C29_Independent ==
  \A s \in queues :
    (/\ ~Closing(s)
     /\ workers[s] = {}
     /\ NextJob(PromoteDelayed(QueueOf(s)).lists) # 0)
    => ENABLED WorkerFetch(s)

\* The Worker of one source is in the middle of an extraction while a job
\* waits in the queue of the other source, whose Worker is idle.
C29_Witness ==
  /\ \E p \in workers["b"] : p.pc = "extracting"
  /\ workers["a"] = {}
  /\ lists["a"].active = <<>>
  /\ lists["a"].wait # <<>>

\* C30: for a jobId that no queue holds, getJobStatus returns null and
\* cancelJob returns false; and an error of Redis while one source's queue is
\* searched is skipped: whatever the queues whose getJob throws, the search
\* finds nothing for a job no queue holds and finds the job that the queue of
\* another source holds.
C30_Misses ==
  \A id \in JobIds :
    /\ (\A s \in queues : id \notin JobsOf(s))
         => /\ GetJobStatus(id) = <<>>
            /\ ~CancelJobResult(id)
            /\ \A failing \in SUBSET queues : FindQueueSkipping(id, 1, failing) = 0
    /\ \A failing \in SUBSET queues : \A s \in queues \ failing :
         id \in JobsOf(s) =>
           /\ FindQueueSkipping(id, 1, failing) # 0
           /\ SourceList[FindQueueSkipping(id, 1, failing)] = s

\* A job that was submitted and removed is held by no queue, while the queue
\* of the second source, searched after the first, holds a job.
C30_Witness ==
  /\ queues = SeqToSet(SourceList)
  /\ \E id \in JobIds :
       /\ hist[id].removedFrom # ""
       /\ \A s \in AllSources : id \notin JobsOf(s)
  /\ JobsOf(SourceList[2]) # {}

\* C31: every jobId addJob returns is distinct from every jobId returned
\* before, and no submission meets an existing job record: the id a submission
\* gets was never handed out and names no job of any queue.
C31_UniqueIds ==
  [][(addCall'.active /\ ~addCall.active) =>
       /\ addCall'.jobId > nextId
       /\ \A s \in AllSources : addCall'.jobId \notin DOMAIN jobs[s]]_vars

\* C32: every job record is held by exactly one source's queue, the queue of
\* the sourceId it was submitted with, and by no other; getJobStatus reports
\* that sourceId as long as the job exists, retries included.
C32_OneQueue ==
  /\ \A s \in AllSources : \A id \in JobsOf(s) :
       /\ jobs[s][id].sourceId = s
       /\ \A other \in AllSources \ {s} : id \notin JobsOf(other)
       /\ GetJobStatus(id) # <<>>
       /\ GetJobStatus(id)[1].sourceId = s
  /\ addCall.active => addCall.jobId \in JobsOf(addCall.sourceId)

\* The second source's queue holds a job that is running its retry while the
\* first source's queue holds another job.
C32_Witness ==
  /\ \E id \in JobsOf("b") :
       /\ jobs["b"][id].attemptsMade = 1
       /\ StateOf("b", id) = "active"
  /\ JobsOf("a") # {}

\* C33: a source's slot stays occupied from the dequeue of a job until that
\* job's orchestrator call resolves or rejects: as long as the call has not
\* ended, the processor keeps its place in the Worker and no job of the source
\* is dequeued, also when the job is cancelled or moved by the stalled-jobs
\* check meanwhile.
C33_SlotHeld ==
  [][\A s \in AllSources : \A p \in workers[s] :
       (/\ p.pc # "resolved"
        /\ hist'[p.job].resolves = hist[p.job].resolves
        /\ hist'[p.job].rejects = hist[p.job].rejects)
       => /\ \E r \in workers'[s] : r.job = p.job
          /\ \A id \in JobIds :
               (id \in JobsOf(s) \/ id \in DOMAIN jobs'[s])
                 => hist'[id].dequeues = hist[id].dequeues]_vars

\* The job of a pending orchestrator call has been cancelled (its lock had
\* expired) while another job of the source waits.
C33_Witness ==
  \E s \in AllSources : \E p \in workers[s] :
    /\ p.pc = "extracting"
    /\ p.job \notin JobsOf(s)
    /\ hist[p.job].removedFrom = "active"
    /\ lists[s].wait # <<>>

\* C34: what getJobStatus shows of a job has a result only when the job is
\* COMPLETED, and a failure reason only when it is FAILED with its attempts
\* used up: a job that waits for a retry or runs one shows no failure reason.
C34_ReasonOnlyWhenFailed ==
  \A id \in JobIds :
    GetJobStatus(id) # <<>> =>
      LET view == GetJobStatus(id)[1]
      IN  /\ view.returnValue # <<>> => view.status = "completed"
          /\ view.failedReason # "" =>
               /\ view.status = "failed"
               /\ view.attempts = view.maxAttempts

\* C35: the attempts getJobStatus reports for a job are, in every state, the
\* number of times the Worker has dequeued the job: 0 at submission, one more
\* with every dequeue, and changed by nothing else.
C35_AttemptsAreDequeues ==
  \A id \in JobIds :
    GetJobStatus(id) # <<>> => GetJobStatus(id)[1].attempts = hist[id].dequeues

C37_PartialInitialize ==
  [][/\ (~isInitialized /\ isInitialized') =>
          \E k \in 0..Len(SourceList) : queues' = {SourceList[i] : i \in 1..k}
     /\ isInitialized => queues' = queues
     /\ \A s \in AllSources \ queues' : AddJobThrows(s)' /\ jobs'[s] = << >>]_vars

\* initialize created the first source's queue and failed on the second; the
\* first source has completed a job since.
C37_Witness ==
  /\ isInitialized
  /\ redis = "open"
  /\ queues = {SourceList[1]}
  /\ lists[SourceList[1]].completed # <<>>
  /\ JobsOf(SourceList[2]) = {}

\* C38: cleanup never throws and ends with the manager marked uninitialized:
\* whatever closes rejected, when the call ends every Worker and every Queue
\* has been closed, the connection is not open (closed, or never there in
\* degraded mode) and isInitialized is false; and nothing but the end of a
\* cleanup marks the manager uninitialized.
C38_CleanupEnds ==
  [][((shutdown.pc # "idle" /\ shutdown'.pc = "idle") \/ (isInitialized /\ ~isInitialized'))
       => /\ ~isInitialized'
          /\ redis' # "open"
          /\ queues' \subseteq shutdown'.workers
          /\ queues' \subseteq shutdown'.queues]_vars

\* A cleanup in which a close rejected has ended: both Workers and both
\* Queues are closed, the connection has quit, the manager is uninitialized.
C38_Witness ==
  /\ shutdown.failed
  /\ shutdown.pc = "idle"
  /\ queues = SeqToSet(SourceList)
  /\ shutdown.workers = queues
  /\ shutdown.queues = queues
  /\ redis = "end"
  /\ ~isInitialized

\* C39: with finitely many submissions, orchestrator calls that all end and
\* fair scheduling, from some moment on every job that exists (was submitted
\* and not removed by cancelJob) is COMPLETED or FAILED and no processor is at
\* work, so no source has a PENDING or RUNNING job; and no job is ever
\* dequeued, or the orchestrator called for it, more than attempts (3) times.
C39_AllDone ==
  \A s \in AllSources :
    /\ workers[s] = {}
    /\ locks[s] = {}
    /\ \A id \in JobsOf(s) : Terminal(s, id)

C39_AttemptsBounded ==
  \A id \in JobIds :
    /\ hist[id].dequeues <= attempts
    /\ hist[id].calls <= attempts
    /\ \A s \in AllSources : id \in JobsOf(s) => jobs[s][id].attemptsMade <= attempts

C39_Terminates == <>[]C39_AllDone /\ []C39_AttemptsBounded

\* All the jobs that can be submitted have been and are done: one FAILED after
\* three attempts, the other COMPLETED, no processor at work.
C39_Witness ==
  /\ nextId = MaxJobs
  /\ C39_AllDone
  /\ \E s \in AllSources : \E x, y \in JobsOf(s) :
       /\ StateOf(s, x) = "failed"
       /\ hist[x].dequeues = attempts
       /\ hist[x].rejects = attempts
       /\ StateOf(s, y) = "completed"

====
